---------------------------- MODULE Spec2Model ----------------------------
(***************************************************************************)
(* A model of the numeric kernels of the jinx-theorem repository:          *)
(*                                                                         *)
(*   diagdevice.py       compute_spectral_coherence(n): Decimal square     *)
(*                       root, ROUND_HALF_UP, phase offset, mean cosine    *)
(*   millionaire_scan.py get_primes(N) -> normalisation -> QFT circuit     *)
(*                       without swaps -> power spectrum                   *)
(*   jinx_square.py      get_squares(N) -> the same pipeline               *)
(*                                                                         *)
(* Decimal numbers are records [c, e] standing for c * 10^e, rounded to    *)
(* Prec significant digits as the decimal context does.  The double        *)
(* precision tier (float(), math.cos) is fixed point arithmetic in units   *)
(* of 1/CosScale.  Amplitudes of the circuit are exact cyclotomic          *)
(* integers of Z[zeta], zeta = exp(2 pi i / N).                            *)
(***************************************************************************)
EXTENDS Integers, Sequences, FiniteSets

(***************************************************************************)
(* Bounds of the model.                                                    *)
(***************************************************************************)
\* significant digits of the decimal context (the code sets 100; the model
\* keeps the rounding rules and scales the digit count to TLC's integers)
Prec == 3
\* compute_spectral_coherence is called on every n in -MaxNeg..MaxN
MaxN == 40
MaxNeg == 2
\* and on k*k, k*k+1, k*k+k for the MaxBig+1 roots k from 10^(Prec-2) and
\* from 10^Prec on (roots that round to a tie, roots of more than Prec digits)
MaxBig == 5
\* get_primes and get_squares are called on every length in 1..MaxLen (and
\* on 100); the scripts run with n_qubits in 1..MaxQubits (the code sets 20)
MaxLen == 20
MaxQubits == 3
\* the pipeline is also run on every 0/1 vector of 2^k entries, k in
\* 1..MaxVecQubits
MaxVecQubits == 2

(***************************************************************************)
(* Integer helpers.                                                        *)
(***************************************************************************)
Pow10(k) == 10^k

Abs(x) == IF x < 0 THEN -x ELSE x

RECURSIVE Digits(_)
\* number of decimal digits of x >= 0 (1 for 0)
Digits(x) == IF x < 10 THEN 1 ELSE 1 + Digits(x \div 10)

RECURSIVE ISqrtFrom(_, _, _)
\* the s in lo..hi with s*s <= x < (s+1)*(s+1), by bisection
ISqrtFrom(x, lo, hi) ==
    IF lo = hi THEN lo
    ELSE LET mid == (lo + hi + 1) \div 2
         IN  IF mid * mid <= x THEN ISqrtFrom(x, mid, hi)
                               ELSE ISqrtFrom(x, lo, mid - 1)

ISqrt(x) == ISqrtFrom(x, 0, 46340)

(***************************************************************************)
(* decimal.Decimal at the context precision.                               *)
(***************************************************************************)
DecZero == [c |-> 0, e |-> 0]

\* c rounded to Prec digits, ROUND_HALF_EVEN (the context's rounding)
DecRound(c, e) ==
    IF Digits(c) <= Prec THEN [c |-> c, e |-> e]
    ELSE LET g == Digits(c) - Prec
             q == c \div Pow10(g)
             r == c % Pow10(g)
             half == 5 * Pow10(g - 1)
             up == (r > half) \/ (r = half /\ q % 2 = 1)
         IN  [c |-> IF up THEN q + 1 ELSE q, e |-> e + g]

\* the root of a non-square n, s0 = floor(sqrt(n)): Prec digits, rounded to
\* nearest (a non-square has no root half way between two Prec-digit values)
DecSqrtInexact(n, s0) ==
    LET f == Prec - Digits(s0)
    IN  IF f >= 0
        THEN LET X == n * Pow10(2 * f)
                 s == ISqrt(X)
             IN  [c |-> IF X > s * s + s THEN s + 1 ELSE s, e |-> -f]
        ELSE LET g == -f
                 s == ISqrt(n \div Pow10(2 * g))
                 mid == (s * s + s) * Pow10(2 * g) + 25 * Pow10(2 * g - 2)
             IN  [c |-> IF n > mid THEN s + 1 ELSE s, e |-> g]

\* Decimal(n).sqrt() for n >= 0: the correctly rounded square root
DecSqrt(n) ==
    LET s0 == ISqrt(n)
    IN  IF s0 * s0 = n THEN DecRound(s0, 0) ELSE DecSqrtInexact(n, s0)

\* a rounding that takes the coefficient for the value when the exponent is
\* positive
ToIntegral_DropsExponent(d) ==
    IF d.e >= 0 THEN d.c
    ELSE LET F == Pow10(-d.e)
         IN  IF 2 * (d.c % F) >= F THEN d.c \div F + 1 ELSE d.c \div F

\* root.to_integral_value(rounding="ROUND_HALF_UP"), as an integer
ToIntegralHalfUp(d) ==
    IF d.e >= 0 THEN d.c * Pow10(d.e)
    ELSE LET F == Pow10(-d.e)
             q == d.c \div F
             r == d.c % F
         IN  IF 2 * r >= F THEN q + 1 ELSE q

\* abs(root - nearest_square_root); the difference fits in Prec digits
DecAbsDiff(d, k) ==
    IF d.e >= 0 THEN [c |-> Abs(d.c * Pow10(d.e) - k), e |-> 0]
    ELSE [c |-> Abs(d.c - k * Pow10(-d.e)), e |-> d.e]

(***************************************************************************)
(* The double precision tier: float(gamma * phase_offset) and math.cos,    *)
(* in fixed point units of 1/CosScale.                                     *)
(***************************************************************************)
CosScale == 10^4
\* pi in units of 1/CosScale
Pi == 31416
TwoPi == 2 * Pi
HalfPi == Pi \div 2

\* the reference frequencies: the coefficients of Decimal("14.134725"), ...,
\* each with exponent -6
GAMMAS == <<14134725, 21022040, 25010857, 30424876, 32935061>>

\* gamma * phase_offset: the exact product of the coefficients, rounded to
\* Prec digits (ROUND_HALF_EVEN).  The product P = A * 1000 + B is kept in
\* two parts so that no intermediate value leaves 32 bits.
DecMulGamma(gamma, off) ==
    LET A == (gamma \div 1000) * off.c + ((gamma % 1000) * off.c) \div 1000
        B == ((gamma % 1000) * off.c) % 1000
        e == off.e - 6
    IN  IF A < Pow10(6) THEN DecRound(A * 1000 + B, e)
        ELSE LET g == Digits(A) + 3 - Prec
                 q == A \div Pow10(g - 3)
                 rhi == A % Pow10(g - 3)
                 H == 5 * Pow10(g - 4)
                 up == \/ rhi > H
                       \/ rhi = H /\ B > 0
                       \/ rhi = H /\ B = 0 /\ q % 2 = 1
             IN  [c |-> IF up THEN q + 1 ELSE q, e |-> e + g]

\* float(d) for d >= 0, in units of 1/CosScale
ToFloat(d) ==
    IF d.e + 4 >= 0 THEN d.c * Pow10(d.e + 4) ELSE d.c \div Pow10(-(d.e + 4))

\* cos on [0, pi/2]: the Taylor polynomial to x^10
CosReduced(x) ==
    LET x2 == (x * x) \div CosScale
        t1 == x2 \div 2
        t2 == (t1 * x2) \div (12 * CosScale)
        t3 == (t2 * x2) \div (30 * CosScale)
        t4 == (t3 * x2) \div (56 * CosScale)
        t5 == (t4 * x2) \div (90 * CosScale)
    IN  CosScale - t1 + t2 - t3 + t4 - t5

\* math.cos(x) for x >= 0, in units of 1/CosScale
Cos(x) ==
    LET r == x % TwoPi
        h == IF r > Pi THEN TwoPi - r ELSE r
    IN  IF h > HalfPi THEN -CosReduced(Pi - h) ELSE CosReduced(h)

RECURSIVE SumSeq(_)
SumSeq(s) == IF s = <<>> THEN 0 ELSE Head(s) + SumSeq(Tail(s))

(***************************************************************************)
(* Exact amplitudes.  With N = 2^n_qubits points and zeta = exp(2 pi i/N), *)
(* an amplitude is an element of Z[zeta]: a sequence a of D = max(1, N/2)  *)
(* integers standing for a[1] + a[2] zeta + ... + a[D] zeta^(D-1), where   *)
(* zeta^D = -1.  The representation is unique.                             *)
(***************************************************************************)
Pow2(k) == 2^k

ZDim(nq) == IF nq = 0 THEN 1 ELSE Pow2(nq - 1)

ZInt(D, k) == [j \in 1..D |-> IF j = 1 THEN k ELSE 0]

ZAdd(a, b) == [j \in 1..Len(a) |-> a[j] + b[j]]

ZSub(a, b) == [j \in 1..Len(a) |-> a[j] - b[j]]

ZScale(k, a) == [j \in 1..Len(a) |-> k * a[j]]

\* a * zeta^t, 0 <= t < 2 * Len(a)
ZMulZeta(a, t) ==
    LET D == Len(a)
    IN  [j \in 1..D |->
            LET src == ((j - 1) - t) % (2 * D)
            IN  IF src < D THEN a[src + 1] ELSE -a[src - D + 1]]

\* the complex conjugate: zeta^s |-> zeta^(-s) = -zeta^(D-s)
ZConj(a) ==
    LET D == Len(a)
    IN  [j \in 1..D |-> IF j = 1 THEN a[1] ELSE -a[D - j + 2]]

RECURSIVE ZMulFrom(_, _, _)
ZMulFrom(a, b, s) ==
    IF s = Len(a) THEN ZInt(Len(a), 0)
    ELSE ZAdd(ZScale(a[s + 1], ZMulZeta(b, s)), ZMulFrom(a, b, s + 1))

ZMul(a, b) == ZMulFrom(a, b, 0)

\* |a|^2 = a * conj(a)
ZAbs2(a) == ZMul(a, ZConj(a))

RECURSIVE ZSum(_, _)
\* the sum of a sequence of elements of dimension D
ZSum(D, v) == IF v = <<>> THEN ZInt(D, 0) ELSE ZAdd(Head(v), ZSum(D, Tail(v)))

(***************************************************************************)
(* The gates of QFT(num_qubits, do_swaps=False) on a state of 2^nq         *)
(* amplitudes, amp[x + 1] the amplitude of basis state x (qubit 0 is the   *)
(* least significant bit).  The common factor 1/sqrt(2) of each Hadamard   *)
(* gate is kept outside, in the denominator of the state.                  *)
(***************************************************************************)
Bit(x, j) == (x \div Pow2(j)) % 2

\* h(j)
ApplyH(amp, j) ==
    [idx \in 1..Len(amp) |->
        IF Bit(idx - 1, j) = 0
        THEN ZAdd(amp[idx], amp[idx + Pow2(j)])
        ELSE ZSub(amp[idx - Pow2(j)], amp[idx])]

\* cp(pi * 2^(k - j), j, k): the phase exp(i pi / 2^(j-k)) = zeta^(N / 2^(j-k+1))
ApplyCP(amp, j, k) ==
    [idx \in 1..Len(amp) |->
        IF Bit(idx - 1, j) = 1 /\ Bit(idx - 1, k) = 1
        THEN ZMulZeta(amp[idx], Len(amp) \div Pow2(j - k + 1))
        ELSE amp[idx]]

RECURSIVE ApplyCPs(_, _, _)
\* for k in reversed(range(0, j)): cp(pi * 2^(k - j), j, k), from k down to 0
ApplyCPs(amp, j, k) ==
    IF k < 0 THEN amp ELSE ApplyCPs(ApplyCP(amp, j, k), j, k - 1)

RECURSIVE QftFrom(_, _)
\* for j in reversed(range(num_qubits)): h(j), then the controlled phases;
\* no swap gates follow
QftFrom(amp, j) ==
    IF j < 0 THEN amp ELSE QftFrom(ApplyCPs(ApplyH(amp, j), j, j - 1), j - 1)

QftNoSwaps(amp, nq) == QftFrom(amp, nq - 1)

\* a real vector as amplitudes
Lift(a, nq) == [idx \in 1..Len(a) |-> ZInt(ZDim(nq), a[idx])]

RECURSIVE SumSq(_)
\* sum of the squares of a sequence of integers
SumSq(a) == IF a = <<>> THEN 0 ELSE Head(a) * Head(a) + SumSq(Tail(a))

(***************************************************************************)
(* State.  One run is one program: compute_spectral_coherence(n) of        *)
(* diagdevice.py, get_primes(n) or get_squares(n) alone, or one of the two *)
(* pipeline scripts.  pc is the place in the program; the other variables  *)
(* carry the program's own names.                                          *)
(***************************************************************************)
VARIABLES
    prog,                 \* the program that runs
    pc,                   \* the statement about to run
    err,                  \* the exception raised, or "none"
    n,                    \* the argument n of the function that runs
    root,                 \* diagdevice: Decimal
    nearest_square_root,  \* Decimal with an integral value, kept as an integer
    phase_offset,         \* Decimal
    resonances,           \* list of floats, units of 1/CosScale
    score,                \* the returned float times Len(GAMMAS) * CosScale
    n_qubits,             \* scripts: N = 2^n_qubits
    i,                    \* get_primes, get_squares: the loop variable
    limit,                \* the last value of the loop variable
    p,                    \* get_primes: the boolean array, p[j + 1] for index j
    field,                \* get_squares: the float array
    data,                 \* the indicator vector (0.0 or 1.0)
    state_vector,         \* [a, d2, nan]: the entries a[j] / sqrt(d2), or all NaN
    qc,                   \* [params, ops]: the circuit's instructions
    result,               \* [amp, den2]: the amplitudes amp[j] / sqrt(den2)
    sv,                   \* the statevector read from result
    res,                  \* [v, den]: the power spectrum v[j] / den
    live                  \* the buffer names that are bound

scorerVars == <<root, nearest_square_root, phase_offset, resonances, score>>
builderVars == <<i, limit, p, field>>
pipeVars == <<data, state_vector, qc, result, sv, res, live>>
vars == <<prog, pc, err, n, scorerVars, n_qubits, builderVars, pipeVars>>

NoVector == [a |-> <<>>, d2 |-> 0, nan |-> FALSE]
NoCircuit == [params |-> NoVector, ops |-> <<>>]
NoState == [amp |-> <<>>, den2 |-> 0]
NoSpectrum == [v |-> <<>>, den |-> 0]

\* the returned float 1.0 and 0.0 in the units of score
ScoreOne == Len(GAMMAS) * CosScale
ScoreZero == 0

\* roots of Prec - 1 digits (one fractional digit is kept) and of Prec + 1
\* digits (the root itself is rounded)
MidRoots == Pow10(Prec - 2) .. (Pow10(Prec - 2) + MaxBig)
BigRoots == Pow10(Prec) .. (Pow10(Prec) + MaxBig)

ScorerInputs ==
    (-MaxNeg .. MaxN)
        \cup {k * k : k \in MidRoots \cup BigRoots}
        \cup {k * k + 1 : k \in MidRoots \cup BigRoots}
        \cup {k * k + k : k \in MidRoots \cup BigRoots}

Lengths == (1 .. MaxLen) \cup {100}

Scripts == {"millionaire_scan", "jinx_square"}

\* "transform" is the pipeline of the scripts (normalisation to power
\* spectrum) run on an indicator vector of any content
Pipelines == Scripts \cup {"transform"}

IndicatorVectors(nq) == [1 .. Pow2(nq) -> {0, 1}]

InitRest ==
    /\ err = "none"
    /\ root = DecZero
    /\ nearest_square_root = 0
    /\ phase_offset = DecZero
    /\ resonances = <<>>
    /\ score = ScoreZero
    /\ i = 0
    /\ limit = 0
    /\ p = <<>>
    /\ field = <<>>
    /\ state_vector = NoVector
    /\ qc = NoCircuit
    /\ result = NoState
    /\ sv = NoState
    /\ res = NoSpectrum

\* compute_spectral_coherence(n)
InitScorer ==
    /\ prog = "diagdevice"
    /\ pc = "sqrt"
    /\ n \in ScorerInputs
    /\ n_qubits = 0
    /\ data = <<>>
    /\ live = {}
    /\ InitRest

\* get_primes(n) or get_squares(n)
InitBuilder ==
    /\ prog \in {"get_primes", "get_squares"}
    /\ pc = "alloc"
    /\ n \in Lengths
    /\ n_qubits = 0
    /\ data = <<>>
    /\ live = {}
    /\ InitRest

\* a script, from its line  data = get_primes(N)  or  data = get_squares(N)
InitScript ==
    /\ prog \in Scripts
    /\ pc = "call"
    /\ n = 0
    /\ n_qubits \in 1 .. MaxQubits
    /\ data = <<>>
    /\ live = {}
    /\ InitRest

\* the pipeline, from its line  norm = np.linalg.norm(data), on any vector
InitTransform ==
    /\ prog = "transform"
    /\ pc = "norm"
    /\ n_qubits \in 1 .. MaxVecQubits
    /\ n = Pow2(n_qubits)
    /\ data \in IndicatorVectors(n_qubits)
    /\ live = {"data"}
    /\ InitRest

Init == InitScorer \/ InitBuilder \/ InitScript \/ InitTransform

(***************************************************************************)
(* diagdevice.py: compute_spectral_coherence                               *)
(***************************************************************************)
\* n_dec = Decimal(n); root = n_dec.sqrt()
\* the square root of a negative number signals InvalidOperation, which the
\* default context traps
Sqrt ==
    /\ prog = "diagdevice" /\ pc = "sqrt"
    /\ IF n < 0
       THEN /\ pc' = "except"
            /\ err' = "InvalidOperation"
            /\ UNCHANGED root
       ELSE /\ pc' = "round"
            /\ root' = DecSqrt(n)
            /\ UNCHANGED err
    /\ UNCHANGED <<prog, n, nearest_square_root, phase_offset, resonances, score>>
    /\ UNCHANGED <<n_qubits, builderVars, pipeVars>>

\* to_integral_value with the context's default rounding, ROUND_HALF_EVEN
NearestInteger_HalfEven(d) ==
    IF d.e >= 0 THEN d.c * Pow10(d.e)
    ELSE LET F == Pow10(-d.e)
             q == d.c \div F
             r == d.c % F
         IN  IF 2 * r > F \/ (2 * r = F /\ q % 2 = 1) THEN q + 1 ELSE q

\* the rounding of the statement below
NearestInteger(d) == ToIntegralHalfUp(d)

\* nearest_square_root = root.to_integral_value(rounding="ROUND_HALF_UP")
Round ==
    /\ prog = "diagdevice" /\ pc = "round"
    /\ nearest_square_root' = NearestInteger(root)
    /\ pc' = "offset"
    /\ UNCHANGED <<prog, err, n, root, phase_offset, resonances, score>>
    /\ UNCHANGED <<n_qubits, builderVars, pipeVars>>

\* phase_offset = abs(root - nearest_square_root)
Offset ==
    /\ prog = "diagdevice" /\ pc = "offset"
    /\ phase_offset' = DecAbsDiff(root, nearest_square_root)
    /\ pc' = "loop"
    /\ UNCHANGED <<prog, err, n, root, nearest_square_root, resonances, score>>
    /\ UNCHANGED <<n_qubits, builderVars, pipeVars>>

\* coherence = math.cos(float(gamma * phase_offset))
Coherence(gamma) == Cos(ToFloat(DecMulGamma(gamma, phase_offset)))

\* one turn of  for gamma in GAMMAS: ... resonances.append(coherence)
Loop ==
    /\ prog = "diagdevice" /\ pc = "loop"
    /\ Len(resonances) < Len(GAMMAS)
    /\ resonances' = Append(resonances, Coherence(GAMMAS[Len(resonances) + 1]))
    /\ UNCHANGED <<prog, pc, err, n, root, nearest_square_root, phase_offset, score>>
    /\ UNCHANGED <<n_qubits, builderVars, pipeVars>>

\* the float returned by  return sum(resonances) / len(resonances)
Mean(rs) == SumSeq(rs)

Return ==
    /\ prog = "diagdevice" /\ pc = "loop"
    /\ Len(resonances) = Len(GAMMAS)
    /\ score' = Mean(resonances)
    /\ pc' = "done"
    /\ UNCHANGED <<prog, err, n, root, nearest_square_root, phase_offset, resonances>>
    /\ UNCHANGED <<n_qubits, builderVars, pipeVars>>

\* an except clause that returns the maximal score
ExceptValue_One == Len(GAMMAS) * CosScale

\* the float returned by the except clause
ExceptValue == ScoreZero

\* except Exception as e: print(...); return 0.0
Except ==
    /\ prog = "diagdevice" /\ pc = "except"
    /\ score' = ExceptValue
    /\ pc' = "done"
    /\ UNCHANGED <<prog, err, n, root, nearest_square_root, phase_offset, resonances>>
    /\ UNCHANGED <<n_qubits, builderVars, pipeVars>>

NextScorer == Sqrt \/ Round \/ Offset \/ Loop \/ Return \/ Except

(***************************************************************************)
(* millionaire_scan.py: get_primes; jinx_square.py: get_squares            *)
(***************************************************************************)
UsesPrimes == prog \in {"get_primes", "millionaire_scan"}
UsesSquares == prog \in {"get_squares", "jinx_square"}

\* an exception leaves the function; a script catches it in its except clause
Raise(e) ==
    /\ pc' = IF prog \in Pipelines THEN "except" ELSE "raised"
    /\ err' = e

\* data = get_primes(N)  /  data = get_squares(N), with N = 2**n_qubits
Call ==
    /\ prog \in Scripts /\ pc = "call"
    /\ n' = Pow2(n_qubits)
    /\ pc' = "alloc"
    /\ UNCHANGED <<prog, err, scorerVars, n_qubits, builderVars, pipeVars>>

\* range(2, int(n**0.5)): the last candidate divisor is left out
SieveLimit_OffByOne(len) == ISqrt(len) - 1

\* the last i of range(2, int(n**0.5)+1)
SieveLimit(len) == ISqrt(len)

\* p = np.ones(n, dtype=bool); p[:2] = False; for i in range(2, ...)
AllocPrimes ==
    /\ UsesPrimes /\ pc = "alloc"
    /\ p' = [j \in 1..n |-> j > 2]
    /\ i' = 2
    /\ limit' = SieveLimit(n)
    /\ pc' = "sieve"
    /\ UNCHANGED <<prog, err, n, scorerVars, n_qubits, field, pipeVars>>

\* p[i*i::i] = False
ClearMultiples(arr, k) ==
    [j \in 1..Len(arr) |->
        IF (j - 1) >= k * k /\ ((j - 1) - k * k) % k = 0 THEN FALSE ELSE arr[j]]

\* one turn of the loop:  if p[i]: p[i*i::i] = False
SieveStep ==
    /\ UsesPrimes /\ pc = "sieve"
    /\ i <= limit
    /\ IF i >= n
       THEN Raise("IndexError") /\ UNCHANGED <<i, p>>
       ELSE /\ p' = IF p[i + 1] THEN ClearMultiples(p, i) ELSE p
            /\ i' = i + 1
            /\ UNCHANGED <<pc, err>>
    /\ UNCHANGED <<prog, n, scorerVars, n_qubits, limit, field, pipeVars>>

\* p.astype(np.float64)
AsFloat(arr) == [j \in 1..Len(arr) |-> IF arr[j] THEN 1 ELSE 0]

\* return p.astype(np.float64), bound to data by a script
SieveReturn ==
    /\ UsesPrimes /\ pc = "sieve"
    /\ i > limit
    /\ data' = AsFloat(p)
    /\ live' = IF prog \in Scripts THEN live \cup {"data"} ELSE live
    /\ pc' = IF prog \in Scripts THEN "norm" ELSE "done"
    /\ UNCHANGED <<prog, err, n, scorerVars, n_qubits, builderVars>>
    /\ UNCHANGED <<state_vector, qc, result, sv, res>>

\* limit = int(np.sqrt(n)): one past the last index when n is a square
SquaresLimit_OffByOne(len) == ISqrt(len)

\* limit = int(np.sqrt(n-1))
SquaresLimit(len) == ISqrt(len - 1)

\* field = np.zeros(n, dtype=np.float64); limit = ...; for i in range(1, limit + 1)
AllocSquares ==
    /\ UsesSquares /\ pc = "alloc"
    /\ field' = [j \in 1..n |-> 0]
    /\ i' = 1
    /\ limit' = SquaresLimit(n)
    /\ pc' = "mark"
    /\ UNCHANGED <<prog, err, n, scorerVars, n_qubits, p, pipeVars>>

\* the index written by one turn of the loop
MarkIndex(k) == k * k

\* one turn of the loop:  field[i*i] = 1.0
MarkStep ==
    /\ UsesSquares /\ pc = "mark"
    /\ i <= limit
    /\ IF MarkIndex(i) >= n
       THEN Raise("IndexError") /\ UNCHANGED <<i, field>>
       ELSE /\ field' = [field EXCEPT ![MarkIndex(i) + 1] = 1]
            /\ i' = i + 1
            /\ UNCHANGED <<pc, err>>
    /\ UNCHANGED <<prog, n, scorerVars, n_qubits, limit, p, pipeVars>>

\* return field, bound to data by a script
MarkReturn ==
    /\ UsesSquares /\ pc = "mark"
    /\ i > limit
    /\ data' = field
    /\ live' = IF prog \in Scripts THEN live \cup {"data"} ELSE live
    /\ pc' = IF prog \in Scripts THEN "norm" ELSE "done"
    /\ UNCHANGED <<prog, err, n, scorerVars, n_qubits, builderVars>>
    /\ UNCHANGED <<state_vector, qc, result, sv, res>>

NextBuilder ==
    Call \/ AllocPrimes \/ SieveStep \/ SieveReturn
         \/ AllocSquares \/ MarkStep \/ MarkReturn

(***************************************************************************)
(* The pipeline of both scripts, after data is built.  A statement that    *)
(* reads a name that is not bound raises NameError.                        *)
(***************************************************************************)
Bound(names) == names \subseteq live

\* norm = np.linalg.norm(data); state_vector = data / norm
\* numpy divides by a zero norm without raising: 0.0 / 0.0 is NaN
Normalized(v) == [a |-> v, d2 |-> SumSq(v), nan |-> SumSq(v) = 0]

Normalize ==
    /\ prog \in Pipelines /\ pc = "norm"
    /\ IF ~Bound({"data"})
       THEN Raise("NameError") /\ UNCHANGED <<state_vector, live>>
       ELSE /\ state_vector' = Normalized(data)
            /\ live' = live \cup {"state_vector"}
            /\ pc' = "renorm"
            /\ UNCHANGED err
    /\ UNCHANGED <<prog, n, scorerVars, n_qubits, builderVars>>
    /\ UNCHANGED <<data, qc, result, sv, res>>

\* state_vector / np.sqrt(np.sum(np.abs(state_vector)**2)):
\* (a / sqrt(d2)) / sqrt(sum(a^2) / d2) = a / sqrt(sum(a^2)); NaN stays NaN
Renormalized(u) ==
    IF u.nan THEN u ELSE [a |-> u.a, d2 |-> SumSq(u.a), nan |-> FALSE]

Renormalize ==
    /\ prog \in Pipelines /\ pc = "renorm"
    /\ IF ~Bound({"state_vector"})
       THEN Raise("NameError") /\ UNCHANGED state_vector
       ELSE /\ state_vector' = Renormalized(state_vector)
            /\ pc' = "del_data"
            /\ UNCHANGED err
    /\ UNCHANGED <<prog, n, scorerVars, n_qubits, builderVars>>
    /\ UNCHANGED <<data, qc, result, sv, res, live>>

\* the script without its  del data
DelData_Skipped ==
    /\ prog \in Pipelines /\ pc = "del_data"
    /\ pc' = "circuit"
    /\ UNCHANGED <<prog, err, n, scorerVars, n_qubits, builderVars, pipeVars>>

\* del data
DelData ==
    /\ prog \in Pipelines /\ pc = "del_data"
    /\ IF ~Bound({"data"})
       THEN Raise("NameError") /\ UNCHANGED <<data, live>>
       ELSE /\ data' = <<>>
            /\ live' = live \ {"data"}
            /\ pc' = "circuit"
            /\ UNCHANGED err
    /\ UNCHANGED <<prog, n, scorerVars, n_qubits, builderVars>>
    /\ UNCHANGED <<state_vector, qc, result, sv, res>>

\* qc = QuantumCircuit(n_qubits)
Circuit ==
    /\ prog \in Pipelines /\ pc = "circuit"
    /\ qc' = NoCircuit
    /\ live' = live \cup {"qc"}
    /\ pc' = "initialize"
    /\ UNCHANGED <<prog, err, n, scorerVars, n_qubits, builderVars>>
    /\ UNCHANGED <<data, state_vector, result, sv, res>>

\* the check of qc.initialize on its parameters: 2^n_qubits amplitudes whose
\* squares sum to 1
ValidState(u, nq) == ~u.nan /\ Len(u.a) = Pow2(nq) /\ SumSq(u.a) = u.d2

\* qc.initialize(state_vector, range(n_qubits))
Initialize ==
    /\ prog \in Pipelines /\ pc = "initialize"
    /\ IF ~Bound({"state_vector", "qc"})
       THEN Raise("NameError") /\ UNCHANGED qc
       ELSE IF ~ValidState(state_vector, n_qubits)
       THEN Raise("QiskitError") /\ UNCHANGED qc
       ELSE /\ qc' = [params |-> state_vector, ops |-> <<"initialize">>]
            /\ pc' = "del_state_vector"
            /\ UNCHANGED err
    /\ UNCHANGED <<prog, n, scorerVars, n_qubits, builderVars>>
    /\ UNCHANGED <<data, state_vector, result, sv, res, live>>

\* del state_vector
DelStateVector ==
    /\ prog \in Pipelines /\ pc = "del_state_vector"
    /\ IF ~Bound({"state_vector"})
       THEN Raise("NameError") /\ UNCHANGED <<state_vector, live>>
       ELSE /\ state_vector' = NoVector
            /\ live' = live \ {"state_vector"}
            /\ pc' = "qft"
            /\ UNCHANGED err
    /\ UNCHANGED <<prog, n, scorerVars, n_qubits, builderVars>>
    /\ UNCHANGED <<data, qc, result, sv, res>>

\* qft_block = QFT(num_qubits=n_qubits, do_swaps=False).decompose()
\* qc.append(qft_block, range(n_qubits)); qc.save_statevector()
QftBlock ==
    /\ prog \in Pipelines /\ pc = "qft"
    /\ IF ~Bound({"qc"})
       THEN Raise("NameError") /\ UNCHANGED qc
       ELSE /\ qc' = [qc EXCEPT !.ops = @ \o <<"qft", "save_statevector">>]
            /\ pc' = "run"
            /\ UNCHANGED err
    /\ UNCHANGED <<prog, n, scorerVars, n_qubits, builderVars>>
    /\ UNCHANGED <<data, state_vector, result, sv, res, live>>

\* the state the simulator saves: the initial amplitudes through the gates
\* of the QFT block; each of the n_qubits Hadamard gates divides by sqrt(2)
Simulate(circ, nq) ==
    [amp |-> QftNoSwaps(Lift(circ.params.a, nq), nq),
     den2 |-> circ.params.d2 * Pow2(nq)]

\* backend = AerSimulator(); qc_t = transpile(qc, backend)
\* result = backend.run(qc_t).result()
Run ==
    /\ prog \in Pipelines /\ pc = "run"
    /\ IF ~Bound({"qc"})
       THEN Raise("NameError") /\ UNCHANGED <<result, live>>
       ELSE /\ result' = Simulate(qc, n_qubits)
            /\ live' = live \cup {"result"}
            /\ pc' = "readout"
            /\ UNCHANGED err
    /\ UNCHANGED <<prog, n, scorerVars, n_qubits, builderVars>>
    /\ UNCHANGED <<data, state_vector, qc, sv, res>>

\* sv = result.get_statevector()
Readout ==
    /\ prog \in Pipelines /\ pc = "readout"
    /\ IF ~Bound({"result"})
       THEN Raise("NameError") /\ UNCHANGED <<sv, live>>
       ELSE /\ sv' = result
            /\ live' = live \cup {"sv"}
            /\ pc' = "power"
            /\ UNCHANGED err
    /\ UNCHANGED <<prog, n, scorerVars, n_qubits, builderVars>>
    /\ UNCHANGED <<data, state_vector, qc, result, res>>

\* sv.data**2: the square of the amplitude, not of its magnitude
PowerSpectrum_NoAbs(s) ==
    [v |-> [j \in 1..Len(s.amp) |-> ZMul(s.amp[j], s.amp[j])], den |-> s.den2]

\* np.abs(sv.data)**2
PowerSpectrum(s) ==
    [v |-> [j \in 1..Len(s.amp) |-> ZAbs2(s.amp[j])], den |-> s.den2]

\* res = np.abs(sv.data)**2
Power ==
    /\ prog \in Pipelines /\ pc = "power"
    /\ IF ~Bound({"sv"})
       THEN Raise("NameError") /\ UNCHANGED <<res, live>>
       ELSE /\ res' = PowerSpectrum(sv)
            /\ live' = live \cup {"res"}
            /\ pc' = "del_sv"
            /\ UNCHANGED err
    /\ UNCHANGED <<prog, n, scorerVars, n_qubits, builderVars>>
    /\ UNCHANGED <<data, state_vector, qc, result, sv>>

\* del sv
DelSv ==
    /\ prog \in Pipelines /\ pc = "del_sv"
    /\ IF ~Bound({"sv"})
       THEN Raise("NameError") /\ UNCHANGED <<sv, live>>
       ELSE /\ sv' = NoState
            /\ live' = live \ {"sv"}
            /\ pc' = "render"
            /\ UNCHANGED err
    /\ UNCHANGED <<prog, n, scorerVars, n_qubits, builderVars>>
    /\ UNCHANGED <<data, state_vector, qc, result, res>>

\* the plot of res and its file (the presentation layer)
Render ==
    /\ prog \in Pipelines /\ pc = "render"
    /\ IF ~Bound({"res"})
       THEN Raise("NameError")
       ELSE pc' = "done" /\ UNCHANGED err
    /\ UNCHANGED <<prog, n, scorerVars, n_qubits, builderVars, pipeVars>>

\* except Exception as e: print(...)
ScriptExcept ==
    /\ prog \in Pipelines /\ pc = "except"
    /\ pc' = "done"
    /\ UNCHANGED <<prog, err, n, scorerVars, n_qubits, builderVars, pipeVars>>

NextPipeline ==
    Normalize \/ Renormalize \/ DelData \/ Circuit \/ Initialize
        \/ DelStateVector \/ QftBlock \/ Run \/ Readout \/ Power \/ DelSv
        \/ Render \/ ScriptExcept

Next == NextScorer \/ NextBuilder \/ NextPipeline

Spec == Init /\ [][Next]_vars

(***************************************************************************)
(* Reference definitions for the properties.                               *)
(***************************************************************************)
IsPrime(j) == j >= 2 /\ \A d \in 2..(j - 1) : j % d # 0

IsSquare(m) == \E k \in (0..MaxN) \cup MidRoots \cup BigRoots : k * k = m

CanonicalPrimes ==
    {2, 3, 5, 7, 11, 13, 17, 19, 23, 29, 31, 37, 41, 43, 47, 53, 59, 61, 67,
     71, 73, 79, 83, 89, 97}

\* the indices of a vector that hold 1.0
Ones(v) == {j \in 0..(Len(v) - 1) : v[j + 1] = 1}

ScorerDone == prog = "diagdevice" /\ pc = "done"
PrimesReturned ==
    \/ prog = "get_primes" /\ pc = "done"
    \/ prog = "millionaire_scan" /\ pc = "norm"
SquaresReturned ==
    \/ prog = "get_squares" /\ pc = "done"
    \/ prog = "jinx_square" /\ pc = "norm"
SpectrumReady == prog \in Pipelines /\ "res" \in live

\* a + b sqrt(2) >= 0
NonNeg2(a, b) ==
    \/ a >= 0 /\ b >= 0
    \/ a > 0 /\ b < 0 /\ a * a >= 2 * b * b
    \/ a < 0 /\ b > 0 /\ 2 * b * b >= a * a

\* x is real (its own conjugate) and x >= 0, for an element x of dimension
\* at most 8.  With D = 4, x = x1 + x2 sqrt(2).  With D = 8 and
\* g = 2 cos(3 pi / 8) > 0, x = P + g Q with P = x1 + x3 sqrt(2) and
\* Q = (x2 + x4) + x2 sqrt(2), and g^2 = 2 - sqrt(2).
NonNegReal(x) ==
    /\ x = ZConj(x)
    /\ CASE Len(x) <= 2 -> x[1] >= 0
         [] Len(x) = 4 -> NonNeg2(x[1], x[2])
         [] Len(x) = 8 ->
              LET Pa == x[1]
                  Pb == x[3]
                  Qa == x[2] + x[4]
                  Qb == x[2]
                  \* P^2 and g^2 Q^2, both in Z[sqrt(2)]
                  P2a == Pa * Pa + 2 * Pb * Pb
                  P2b == 2 * Pa * Pb
                  Q2a == Qa * Qa + 2 * Qb * Qb
                  Q2b == 2 * Qa * Qb
                  G2a == 2 * Q2a - 2 * Q2b
                  G2b == 2 * Q2b - Q2a
                  Ppos == NonNeg2(Pa, Pb)
                  Qpos == NonNeg2(Qa, Qb)
              IN  \/ Ppos /\ Qpos
                  \/ Ppos /\ ~Qpos /\ NonNeg2(P2a - G2a, P2b - G2b)
                  \/ ~Ppos /\ Qpos /\ NonNeg2(G2a - P2a, G2b - P2b)

\* the coefficient of the standard DFT at frequency k: sum of u[x] zeta^(-x k)
RECURSIVE DftFrom(_, _, _, _)
DftFrom(u, k, x, D) ==
    IF x = Len(u) THEN ZInt(D, 0)
    ELSE ZAdd(ZMulZeta(ZInt(D, u[x + 1]), (2 * Len(u) * D - x * k) % (2 * D)),
              DftFrom(u, k, x + 1, D))

Dft(u, k, nq) == DftFrom(u, k, 0, ZDim(nq))

RECURSIVE BitReverse(_, _)
\* the nq-bit number x with its bits in the opposite order
BitReverse(x, nq) ==
    IF nq = 0 THEN 0
    ELSE (x % 2) * Pow2(nq - 1) + BitReverse(x \div 2, nq - 1)

(***************************************************************************)
(* Properties.                                                             *)
(***************************************************************************)

\* C1: for every perfect square n >= 0 (0 and 1 included),
\* compute_spectral_coherence(n) returns exactly 1.0: the phase offset is
\* exactly 0 and every one of the cosine terms is 1.
C1_PerfectSquareScoresOne ==
    (ScorerDone /\ n >= 0 /\ IsSquare(n)) =>
        /\ err = "none"
        /\ phase_offset.c = 0
        /\ Len(resonances) = Len(GAMMAS)
        /\ \A k \in 1..Len(resonances) : resonances[k] = CosScale
        /\ score = ScoreOne

\* a perfect square whose root has more digits than the context keeps has
\* been scored 1.0
C1_Witness ==
    /\ ScorerDone
    /\ \E k \in BigRoots : n = k * k /\ k % 10 # 0
    /\ score = ScoreOne

\* C2: for every length n >= 2, get_primes(n) returns n entries, entry j
\* being 1.0 exactly when j is prime (entries 0 and 1 are 0.0); for n = 100
\* the entries holding 1.0 are the 25 primes below 100.
C2_PrimesIndicator ==
    (PrimesReturned /\ n >= 2) =>
        /\ err = "none"
        /\ Len(data) = n
        /\ \A j \in 0..(n - 1) : data[j + 1] = IF IsPrime(j) THEN 1 ELSE 0
        /\ data[1] = 0 /\ data[2] = 0
        /\ n = 100 => (Ones(data) = CanonicalPrimes /\ Cardinality(Ones(data)) = 25)

C2_Witness ==
    /\ prog = "get_primes" /\ pc = "done" /\ n = 100
    /\ Cardinality(Ones(data)) = 25

\* C3: for every length n >= 1, get_squares(n) returns n entries, entry j
\* being 1.0 exactly when j = i*i for an i with 1 <= i and i*i <= n-1, and
\* 0.0 otherwise (entry 0 included); no index outside 0..n-1 is written;
\* for n = 17 the entries holding 1.0 are 1, 4, 9 and 16.
C3_SquaresIndicator ==
    /\ UsesSquares => err # "IndexError"
    /\ (SquaresReturned /\ n >= 1) =>
        /\ Len(data) = n
        /\ \A j \in 0..(n - 1) :
              data[j + 1] = IF \E k \in 1..n : k * k = j /\ k * k <= n - 1
                            THEN 1 ELSE 0
        /\ data[1] = 0
        /\ n = 17 => Ones(data) = {1, 4, 9, 16}

C3_Witness ==
    /\ prog = "get_squares" /\ pc = "done" /\ n = 17
    /\ Ones(data) = {1, 4, 9, 16}

\* C4: energy conservation: whenever a script has computed the power
\* spectrum res, every entry of res is a non-negative real and the entries
\* sum to exactly 1.
C4_EnergyConserved ==
    SpectrumReady =>
        /\ res.den > 0
        /\ Len(res.v) = Pow2(n_qubits)
        /\ \A j \in 1..Len(res.v) : NonNegReal(res.v[j])
        /\ ZSum(ZDim(n_qubits), res.v) = ZInt(ZDim(n_qubits), res.den)

\* a spectrum of 8 points with an irrational entry has been computed
C4_Witness ==
    /\ SpectrumReady /\ n_qubits = 3
    /\ \E j \in 1..Len(res.v) : res.v[j][2] # 0

\* C5: when the vector given to the pipeline is the zero vector, the
\* normalisation fails with a division-by-zero error: the script never goes
\* on past it, and no vector of NaN values is ever produced.
C5_ZeroVectorRaises ==
    /\ ~state_vector.nan
    /\ (prog \in Pipelines /\ pc = "renorm") => SumSq(data) # 0

\* C6: for every n on which the arithmetic of compute_spectral_coherence
\* raises (every negative n), the exception is caught inside the function,
\* nothing reaches the caller, and 0.0 is returned.
C6_ExceptionGivesZero ==
    /\ prog = "diagdevice" => pc # "raised"
    /\ (ScorerDone /\ err # "none") => score = ScoreZero
    /\ (ScorerDone /\ n < 0) => (err = "InvalidOperation" /\ score = ScoreZero)

C6_Witness ==
    ScorerDone /\ n < 0 /\ err = "InvalidOperation" /\ score = ScoreZero

\* C7: for every n, the value compute_spectral_coherence(n) returns lies in
\* the closed interval [0, 1].
C7_ScoreInUnitInterval ==
    ScorerDone => (ScoreZero <= score /\ score <= ScoreOne)

\* C8: the power spectrum the scripts compute equals, index by index, the
\* squared magnitude of the standard DFT of the initialised vector in
\* natural frequency order.
C8_NaturalOrderDft ==
    SpectrumReady =>
        \A x \in 0..(Len(res.v) - 1) :
            res.v[x + 1] = ZAbs2(Dft(qc.params.a, x, n_qubits))

\* what the scripts compute instead: entry x of the power spectrum is the
\* squared magnitude of the DFT coefficient at the bit-reversed frequency
BitReversedDft ==
    SpectrumReady =>
        \A x \in 0..(Len(res.v) - 1) :
            res.v[x + 1] =
                ZAbs2(Dft(qc.params.a, BitReverse(x, n_qubits), n_qubits))

\* C9: for every n >= 0, nearest_square_root is an integer nearest to the
\* computed root, a tie going to the larger integer, and phase_offset is
\* |root - nearest_square_root|, between 0 and 0.5.
C9_NearestAndOffset ==
    (prog = "diagdevice" /\ pc \in {"loop", "done"} /\ n >= 0) =>
        IF root.e >= 0
        THEN /\ nearest_square_root = root.c * Pow10(root.e)
             /\ phase_offset.c = 0
        ELSE LET F == Pow10(-root.e)
                 dist == Abs(root.c - nearest_square_root * F)
             IN  /\ 2 * dist <= F
                 /\ 2 * dist = F => nearest_square_root * F > root.c
                 /\ phase_offset = [c |-> dist, e |-> root.e]
                 /\ 0 <= phase_offset.c /\ 2 * phase_offset.c <= F

\* a root that lies half way between two integers has been rounded up
C9_Witness ==
    /\ ScorerDone /\ root.e < 0
    /\ 2 * phase_offset.c = Pow10(-root.e)
    /\ nearest_square_root * Pow10(-root.e) > root.c

\* C10: in every run of a script, data is released before the circuit is
\* constructed, state_vector before the circuit is extended and run, and sv
\* before rendering; no released name is read; data, state_vector and the
\* transform output are never all alive together.
C10_BuffersReleased ==
    prog \in Pipelines =>
        /\ err # "NameError"
        /\ pc \in {"circuit", "initialize", "del_state_vector", "qft", "run",
                   "readout", "power", "del_sv", "render"} => "data" \notin live
        /\ pc \in {"qft", "run", "readout", "power", "del_sv", "render"}
               => "state_vector" \notin live
        /\ pc = "render" => "sv" \notin live
        /\ (pc = "done" /\ err = "none") => live \cap {"data", "state_vector", "sv"} = {}
        /\ ~({"data", "state_vector"} \subseteq live
               /\ live \cap {"result", "sv", "res"} # {})

\* the simulation has run with neither input buffer bound
C10_Witness ==
    /\ prog \in Scripts /\ pc = "readout" /\ n_qubits = MaxQubits
    /\ live = {"qc", "result"}

=============================================================================
